---------------------------- MODULE Spec2Model ----------------------------
(***************************************************************************)
(* State-machine model of the HACCP checklist application                  *)
(* (src/App.tsx, src/constants.ts).                                        *)
(*                                                                         *)
(* JavaScript values are encoded as follows.                               *)
(*   - a string is a TLA+ string; the Japanese literals of the source are  *)
(*     written in ASCII (the original is given in a comment at each one);  *)
(*   - an optional property holds ABSENT when the object has no such key,  *)
(*     UNDEFINED when the key is there with the value undefined, NULL when *)
(*     it is null;                                                         *)
(*   - a Date / ISO timestamp is the clock value (milliseconds) it was     *)
(*     taken at;                                                           *)
(*   - CheckItem objects live in `heap` (reference -> object) because the  *)
(*     source shares and mutates them in place; `config` is an array of    *)
(*     references.                                                         *)
(*                                                                         *)
(* Specifications: Spec (record keeping and persistence, with the clock),  *)
(* SpecData (backup and restore), SpecExport (tabular export of loaded and *)
(* restored records, with the clock), SpecSettings (item list edits and    *)
(* the progress of the checklist view).                                    *)
(***************************************************************************)
EXTENDS Integers, Sequences, FiniteSets, TLC

VARIABLES
    heap,         \* CheckItem objects by reference (seed objects are 1..11)
    config,       \* React state `config`: array of references into heap
    records,      \* React state `records`: date -> DayRecord
    currentDate,  \* React state `currentDate`
    isLoading,    \* React state `isLoading`
    toast,        \* React state `toast`: NULL or [msg, type]
    storage,      \* localStorage slot STORAGE_KEY: NULL or a stored text
    timers,       \* pending debounced saves: set of [due, config, records]
    toastTimers,  \* pending toast clears: set of due times
    now,          \* the clock (Date.now(), milliseconds)
    prevRecord,   \* the object a handler received as `record`, as it is after the handler
    lastEvent,    \* the handler that ran last, with its inputs
    lastWrite,    \* text of the last localStorage.setItem call: NULL if none
    writesSinceChange,  \* setItem calls since the last change of config/records/isLoading
    changesInBurst,     \* changes of config/records since the last setItem call (capped)
    lastChangeAt,       \* clock value of the last change of config/records/isLoading
    edits,        \* number of record and settings edits made (bounded by MaxEdits)
    backupFile,   \* text of the backup file exportBackupJSON wrote last: NoText if none
    exportedState,\* config items and records in memory when that file was written
    restores,     \* handleRestore calls awaiting importBackupJSON: set of [file, reader]
    exportTimers, \* handleExcelExport calls in their 100 ms wait: set of [due, config, records, call]
    sheet,        \* rows of the workbook exportDataToExcel wrote last
    dataOps       \* backups, restores and exports started (bounded by MaxDataOps)

vars == <<heap, config, records, currentDate, isLoading, toast, storage, timers,
          toastTimers, now, prevRecord, lastEvent, lastWrite, writesSinceChange,
          changesInBurst, lastChangeAt, edits, backupFile, exportedState, restores,
          exportTimers, sheet, dataOps>>

dataVars == <<backupFile, exportedState, restores, exportTimers, sheet, dataOps>>

-----------------------------------------------------------------------------
(* Bounds of the model *)

MaxEdits == 2        \* check saves, health edits, item additions and renames per behaviour
MaxDataOps == 2      \* backups, restores and tabular exports per behaviour
MaxOps == 3          \* user operations per behaviour, of both kinds

-----------------------------------------------------------------------------
(* JavaScript special values *)

ABSENT == "<absent>"
UNDEFINED == "<undefined>"
NULL == "<null>"

Truthy(v) == v \notin {ABSENT, UNDEFINED, NULL, ""}

\* RecordResult (constants.ts enum)
YES == "YES"
NO == "NO"

\* 'なし' / 'あり'
NASHI == "nashi"
ARI == "ari"

-----------------------------------------------------------------------------
(* Seed data: DEFAULT_CHECKLIST (constants.ts 3-15) *)

\* '一般的衛生管理'
CAT_GENERAL == "general hygiene"
\* '重要管理点 (HACCP)'
CAT_HACCP == "CCP (HACCP)"
\* '℃'
DEG_C == "degC"

BoolItem(id, cat, text, ord) ==
    [id |-> id, category |-> cat, text |-> text, type |-> "boolean",
     unit |-> ABSENT, displayOrder |-> ord]

RecItem(id, cat, text, unit, ord) ==
    [id |-> id, category |-> cat, text |-> text, type |-> "record",
     unit |-> unit, displayOrder |-> ord]

\* The item literals of DEFAULT_CHECKLIST, in order (texts in English gloss).
SeedItems ==
    << BoolItem("c1", CAT_GENERAL, "staff health, clothing, hand washing", 1),
       BoolItem("c2", CAT_GENERAL, "utensils washed and disinfected", 2),
       RecItem("c3", CAT_GENERAL, "refrigerator temperature (10C or less)", DEG_C, 3),
       RecItem("c4", CAT_GENERAL, "freezer temperature (-15C or less)", DEG_C, 4),
       BoolItem("c5", CAT_GENERAL, "kitchen cleaned, waste disposed", 5),
       BoolItem("c6", CAT_GENERAL, "toilet washed and disinfected", 6),
       BoolItem("h1", CAT_HACCP, "freshness and temperature at receipt", 7),
       BoolItem("h2", CAT_HACCP, "core temperature when heating (75C 1 min)", 8),
       BoolItem("h3", CAT_HACCP, "cooling after heating", 9),
       BoolItem("h4", CAT_HACCP, "core temperature when reheating", 10),
       BoolItem("h5", CAT_HACCP, "frying oil replacement", 11) >>

\* The exported array: references to the eleven seed objects.
DEFAULT_CHECKLIST == [i \in 1..Len(SeedItems) |-> i]

SeedRefs == 1..Len(SeedItems)

\* The CheckItem objects of an array of references.
Deref(h, refs) == [i \in 1..Len(refs) |-> h[refs[i]]]

\* The heap once `refs` is the configuration and `held` are the references
\* pending closures keep: objects nothing refers to are dropped.
Collect(h, refs, held) ==
    [r \in SeedRefs \cup {refs[i] : i \in 1..Len(refs)} \cup held |-> h[r]]

MaxRef(S) == CHOOSE m \in S : \A x \in S : x <= m

\* Fresh objects for the items of a parsed array (JSON.parse allocates them):
\* references above every live one.
FreshRefs(items, held) ==
    [i \in 1..Len(items) |-> MaxRef(SeedRefs \cup held) + i]

AllocParsed(h, items, held) ==
    LET refs == FreshRefs(items, held)
    IN [r \in SeedRefs \cup held \cup {refs[i] : i \in 1..Len(items)} |->
           IF r \in SeedRefs \cup held THEN h[r]
           ELSE items[r - MaxRef(SeedRefs \cup held)]]

-----------------------------------------------------------------------------
(* Storage key and timing constants *)

\* setTimeout(..., 500) of the save effect
DEBOUNCE_MS == 500
\* setTimeout(() => setToast(null), 3000)
TOAST_MS == 3000

-----------------------------------------------------------------------------
(* JSON *)

\* JSON.stringify of a DailyCheckResult / HealthRecord / CheckItem: a property
\* whose value is undefined is left out; null and strings are written.
JsonProp_DropsNull(v) == IF v \in {UNDEFINED, NULL} THEN ABSENT ELSE v

JsonProp(v) == IF v = UNDEFINED THEN ABSENT ELSE v

JsonCheck(c) ==
    [itemId |-> c.itemId, result |-> JsonProp(c.result), value |-> JsonProp(c.value),
     comment |-> JsonProp(c.comment), photo |-> JsonProp(c.photo)]

JsonHealth(h) ==
    [temp |-> JsonProp(h.temp), symptom |-> JsonProp(h.symptom),
     wound |-> JsonProp(h.wound), details |-> JsonProp(h.details)]

JsonItem(it) ==
    [id |-> it.id, category |-> it.category, text |-> it.text, type |-> it.type,
     unit |-> JsonProp(it.unit), displayOrder |-> it.displayOrder]

JsonDayRecord(r) ==
    [date |-> r.date,
     checks |-> [i \in 1..Len(r.checks) |-> JsonCheck(r.checks[i])],
     health |-> JsonHealth(r.health),
     lastUpdated |-> r.lastUpdated]

JsonRecords(recs) == [d \in DOMAIN recs |-> JsonDayRecord(recs[d])]

JsonConfig(items) == [i \in 1..Len(items) |-> JsonItem(items[i])]

\* A text (a stored value, a file's content) is NoText when there is none
\* (getItem returns null), NotJson when JSON.parse throws on it, and otherwise
\* [kind |-> "json", type |-> the type of the top-level value, hasConfig, config,
\* hasRecords, records]: the two properties the program reads from the value.
NoText == [kind |-> "none"]

NotJson == [kind |-> "garbage"]

JsonNonObject(type) ==
    [kind |-> "json", type |-> type, hasConfig |-> FALSE, config |-> <<>>,
     hasRecords |-> FALSE, records |-> <<>>]

\* JSON.stringify({ config, records })
Stringify(items, recs) ==
    [kind |-> "json", type |-> "object", hasConfig |-> TRUE, config |-> JsonConfig(items),
     hasRecords |-> TRUE, records |-> JsonRecords(recs)]

\* JSON.parse(text): [threw |-> TRUE] or [threw |-> FALSE, value |-> ...]
JsonParse(text) ==
    IF text.kind = "json" THEN [threw |-> FALSE, value |-> text] ELSE [threw |-> TRUE]

-----------------------------------------------------------------------------
(* Toasts (App.tsx 77-80) *)

NoToast == [msg |-> NULL, type |-> NULL]

\* '記録しました'
MSG_RECORDED == "recorded"
\* '保存容量が不足しています。古いデータを削除してください。'
MSG_QUOTA == "storage capacity exceeded, delete old data"

\* showToast(msg, type): setToast and the timer that clears it
showToast(msg, type) ==
    /\ toast' = [msg |-> msg, type |-> type]
    /\ toastTimers' = toastTimers \cup {now + TOAST_MS}

-----------------------------------------------------------------------------
(* Day records (App.tsx 83-100) *)

DefaultHealth == [temp |-> "", symptom |-> NASHI, wound |-> NASHI, details |-> ABSENT]

getRecordForDate_AlwaysDefault(recs, date, t) ==
    [date |-> date, checks |-> <<>>, health |-> DefaultHealth, lastUpdated |-> t]

\* getRecordForDate(date), called at clock value t with `records` = recs
getRecordForDate(recs, date, t) ==
    IF date \in DOMAIN recs
    THEN recs[date]
    ELSE [date |-> date, checks |-> <<>>, health |-> DefaultHealth, lastUpdated |-> t]

updateRecord_DropsOthers(prev, date, newRecord, t) ==
    [d \in {date} |-> [newRecord EXCEPT !.lastUpdated = t]]

\* The function updateRecord passes to setRecords, for the updater () => newRecord
\* the views give it: the updater's result gets lastUpdated assigned and replaces
\* the entry of `date` in a copy of prev.
updateRecord(prev, date, newRecord, t) ==
    [d \in DOMAIN prev \cup {date} |->
        IF d = date THEN [newRecord EXCEPT !.lastUpdated = t] ELSE prev[d]]

-----------------------------------------------------------------------------
(* Checklist view (App.tsx 199-216) and check modal (App.tsx 559-569) *)

\* CheckModal.handleSave: the DailyCheckResult handed to onSave
handleSave(item, result, value, comment, photo) ==
    [itemId |-> item.id,
     result |-> result,
     value |-> IF item.type = "record" THEN value ELSE UNDEFINED,
     comment |-> comment,
     photo |-> photo]

\* saveCheck(result) on the view's `record`: `newRecord` is the object passed to
\* onUpdate, `record` is the view's record object after the call (filter and the
\* spread copy; nothing is assigned to the original).
saveCheck_NoFilter(record, result) ==
    [record |-> record,
     newRecord |-> [record EXCEPT !.checks = Append(record.checks, result)]]

saveCheck(record, result) ==
    LET newChecks == SelectSeq(record.checks, LAMBDA c : c.itemId # result.itemId)
    IN [record |-> record,
        newRecord |-> [record EXCEPT !.checks = Append(newChecks, result)]]

-----------------------------------------------------------------------------
(* Health view (App.tsx 288-291) *)

\* handleChange(field, value): as saveCheck, the object passed to onUpdate and
\* the view's record after the call.
handleChange_DropsOthers(record, field, value) ==
    LET newHealth == [DefaultHealth EXCEPT ![field] = value]
    IN [record |-> record,
        newRecord |-> [record EXCEPT !.health = newHealth]]

handleChange(record, field, value) ==
    LET newHealth == [record.health EXCEPT ![field] = value]
    IN [record |-> record,
        newRecord |-> [record EXCEPT !.health = newHealth]]

-----------------------------------------------------------------------------
(* Save effect (App.tsx 65-75) *)

\* The effect's cleanup: clearTimeout of the timer its previous run set (the
\* only timer that can be pending).
cleanup_KeepsTimer(ts) == ts

cleanup(ts) == {}

saveEffect_NoTimer(ts, loading, cfg, recs, t) == cleanup(ts)

saveEffect_IgnoresLoading(ts, loading, cfg, recs, t) ==
    cleanup(ts) \cup {[due |-> t + DEBOUNCE_MS, config |-> cfg, records |-> recs]}

\* One run of the effect for the rendered isLoading, config, records.
saveEffect(ts, loading, cfg, recs, t) ==
    IF loading
    THEN cleanup(ts)
    ELSE cleanup(ts) \cup {[due |-> t + DEBOUNCE_MS, config |-> cfg, records |-> recs]}

\* References held by pending timers (their closures keep the arrays alive).
TimerRefs(ts) == UNION {{t.config[i] : i \in 1..Len(t.config)} : t \in ts}

-----------------------------------------------------------------------------
(* Inputs *)

\* Dates the user selects (YYYY-MM-DD); the first is today's.
Dates == {"2024-01-01", "2024-01-02"}
Today == "2024-01-01"

\* Items whose modal the user opens in the record-keeping specifications.
CheckedIds == {"c1", "c3"}

\* What the user enters in the check modal.
ModalInputs ==
    { [result |-> YES, value |-> "", comment |-> "", photo |-> NULL],
      [result |-> NO, value |-> "8", comment |-> "memo", photo |-> "data:image/jpeg;base64"] }

\* What the health view passes to handleChange.
HealthInputs ==
    { <<"temp", "36.5">>, <<"symptom", ARI>>, <<"details", "rest at home">> }

\* A state an earlier session saved under STORAGE_KEY.
SavedRecords ==
    [d \in {Today} |->
        [date |-> Today,
         checks |-> << [itemId |-> "c1", result |-> YES, value |-> ABSENT,
                        comment |-> "", photo |-> NULL] >>,
         health |-> DefaultHealth,
         lastUpdated |-> 0]]

SavedState == Stringify(SeedItems, SavedRecords)

\* What the slot may hold when the application starts.
StoredValues == {NoText, NotJson, JsonNonObject("null"), SavedState}

-----------------------------------------------------------------------------
(* Initial state: the first render of App (App.tsx 36-43) *)

NoEvent == [op |-> "none"]

NoState == [config |-> <<>>, records |-> <<>>]

Init ==
    /\ heap = [r \in SeedRefs |-> SeedItems[r]]
    /\ config = DEFAULT_CHECKLIST
    /\ records = <<>>
    /\ currentDate = Today
    /\ isLoading = TRUE
    /\ toast = NoToast
    /\ storage \in StoredValues
    /\ timers = saveEffect({}, TRUE, DEFAULT_CHECKLIST, <<>>, 0)
    /\ toastTimers = {}
    /\ now = 0
    /\ prevRecord = NULL
    /\ lastEvent = NoEvent
    /\ lastWrite = NoText
    /\ writesSinceChange = 0
    /\ changesInBurst = 0
    /\ lastChangeAt = 0
    /\ edits = 0
    /\ backupFile = NoText
    /\ exportedState = NoState
    /\ restores = {}
    /\ exportTimers = {}
    /\ sheet = <<>>
    /\ dataOps = 0

-----------------------------------------------------------------------------
(* Bookkeeping of the save effect's runs *)

MaxBurst == 3

Min(a, b) == IF a < b THEN a ELSE b

\* A render with a new isLoading, config or records: the effect runs again.
EffectRuns(loading, cfg, recs) ==
    /\ timers' = saveEffect(timers, loading, cfg, recs, now)
    /\ lastChangeAt' = now
    /\ writesSinceChange' = 0
    /\ changesInBurst' =
          IF writesSinceChange = 0 /\ changesInBurst > 0 /\ now - lastChangeAt < DEBOUNCE_MS
          THEN Min(changesInBurst + 1, MaxBurst)
          ELSE 1

NoEffect == UNCHANGED <<timers, lastChangeAt, writesSinceChange, changesInBurst>>

-----------------------------------------------------------------------------
(* Load effect (App.tsx 46-62) *)

\* What load() does with the stored text: which setters it calls, with what.
\* `threw`: the try block threw; `caught`: the catch clause took it.
load_NoCatch(stored) ==
    IF stored.kind = "none"
    THEN [threw |-> FALSE, caught |-> FALSE, setConfig |-> FALSE, setRecords |-> FALSE]
    ELSE LET parsed == JsonParse(stored)
         IN IF parsed.threw \/ parsed.value.type = "null"
            THEN [threw |-> TRUE, caught |-> FALSE, setConfig |-> FALSE, setRecords |-> FALSE]
            ELSE [threw |-> FALSE, caught |-> FALSE,
                  setConfig |-> parsed.value.hasConfig, config |-> parsed.value.config,
                  setRecords |-> parsed.value.hasRecords, records |-> parsed.value.records]

load(stored) ==
    IF stored.kind = "none"
    THEN [threw |-> FALSE, caught |-> FALSE, setConfig |-> FALSE, setRecords |-> FALSE]
    ELSE LET parsed == JsonParse(stored)
         IN IF parsed.threw
            THEN [threw |-> TRUE, caught |-> TRUE, setConfig |-> FALSE, setRecords |-> FALSE]
            ELSE IF parsed.value.type = "null"
            THEN \* parsed.config on null: TypeError
                 [threw |-> TRUE, caught |-> TRUE, setConfig |-> FALSE, setRecords |-> FALSE]
            ELSE [threw |-> FALSE, caught |-> FALSE,
                  setConfig |-> parsed.value.hasConfig, config |-> parsed.value.config,
                  setRecords |-> parsed.value.hasRecords, records |-> parsed.value.records]

Load ==
    /\ isLoading
    /\ lastEvent.op = "none"
    /\ LET r == load(storage)
       IN /\ IF r.setConfig
             THEN /\ heap' = AllocParsed(heap, r.config, {})
                  /\ config' = FreshRefs(r.config, {})
             ELSE UNCHANGED <<heap, config>>
          /\ records' = IF r.setRecords THEN r.records ELSE records
          /\ lastEvent' = [op |-> "load", escaped |-> r.threw /\ ~r.caught]
    /\ isLoading' = FALSE
    /\ EffectRuns(FALSE, config', records')
    /\ UNCHANGED <<currentDate, toast, storage, toastTimers, now, prevRecord, lastWrite, edits>>
    /\ UNCHANGED dataVars

-----------------------------------------------------------------------------
(* Header date input (App.tsx 147-152) and history selection (App.tsx 121) *)

SetCurrentDate ==
    \E d \in Dates :
        /\ currentDate' = d
        /\ lastEvent' = [op |-> "setCurrentDate"]
        /\ NoEffect
        /\ UNCHANGED <<heap, config, records, isLoading, toast, storage, toastTimers,
                       now, prevRecord, lastWrite, edits>>
        /\ UNCHANGED dataVars

-----------------------------------------------------------------------------
(* Check save: CheckModal.handleSave -> saveCheck -> onUpdate -> updateRecord *)

SaveCheck ==
    /\ ~isLoading
    /\ edits < MaxEdits
    /\ edits + dataOps < MaxOps
    /\ \E i \in 1..Len(config), in \in ModalInputs :
         LET item == heap[config[i]]
             record == getRecordForDate(records, currentDate, now)
             res == handleSave(item, in.result, in.value, in.comment, in.photo)
             out == saveCheck(record, res)
         IN /\ item.id \in CheckedIds
            /\ records' = updateRecord(records, currentDate, out.newRecord, now)
            /\ prevRecord' = out.record
            /\ lastEvent' = [op |-> "saveCheck", result |-> res, at |-> now]
    /\ showToast(MSG_RECORDED, "success")
    /\ edits' = edits + 1
    /\ EffectRuns(isLoading, config, records')
    /\ UNCHANGED <<heap, config, currentDate, isLoading, storage, now, lastWrite>>
    /\ UNCHANGED dataVars

-----------------------------------------------------------------------------
(* Health edit: HealthView.handleChange -> onUpdate -> updateRecord *)

HandleChange ==
    /\ ~isLoading
    /\ edits < MaxEdits
    /\ edits + dataOps < MaxOps
    /\ \E in \in HealthInputs :
         LET record == getRecordForDate(records, currentDate, now)
             out == handleChange(record, in[1], in[2])
         IN \* the details field is rendered only with a symptom or a wound
            /\ in[1] = "details" => (record.health.symptom = ARI \/ record.health.wound = ARI)
            /\ records' = updateRecord(records, currentDate, out.newRecord, now)
            /\ prevRecord' = out.record
            /\ lastEvent' = [op |-> "handleChange", field |-> in[1], value |-> in[2], at |-> now]
    /\ edits' = edits + 1
    /\ EffectRuns(isLoading, config, records')
    /\ UNCHANGED <<heap, config, currentDate, isLoading, toast, storage, toastTimers,
                   now, lastWrite>>
    /\ UNCHANGED dataVars

-----------------------------------------------------------------------------
(* The debounced save fires (App.tsx 67-73) *)

FireSave ==
    \E t \in timers :
        /\ now >= t.due
        /\ timers' = timers \ {t}
        /\ LET text == Stringify(Deref(heap, t.config), t.records)
           IN /\ lastWrite' = text
              /\ \/ \* setItem stores the text
                    /\ storage' = text
                    /\ lastEvent' = [op |-> "save", ok |-> TRUE]
                    /\ UNCHANGED <<toast, toastTimers>>
                 \/ \* setItem throws (quota exceeded)
                    /\ storage' = storage
                    /\ lastEvent' = [op |-> "save", ok |-> FALSE]
                    /\ showToast(MSG_QUOTA, "error")
        /\ writesSinceChange' = Min(writesSinceChange + 1, MaxBurst)
        /\ UNCHANGED <<heap, config, records, currentDate, isLoading, now, prevRecord,
                       changesInBurst, lastChangeAt, edits>>
        /\ UNCHANGED dataVars

-----------------------------------------------------------------------------
(* A toast's timer fires (App.tsx 79) *)

ClearToast ==
    \E d \in toastTimers :
        /\ now >= d
        /\ toastTimers' = toastTimers \ {d}
        /\ toast' = NoToast
        /\ lastEvent' = [op |-> "clearToast"]
        /\ NoEffect
        /\ UNCHANGED <<heap, config, records, currentDate, isLoading, storage, now,
                       prevRecord, lastWrite, edits>>
        /\ UNCHANGED dataVars

-----------------------------------------------------------------------------
(* The clock *)

MaxNow == 750

\* Granularity of the clock: two steps to a debounce window.
TickMs == DEBOUNCE_MS \div 2

\* Time passes; a timer runs when it is due, before the clock moves on.
Tick(d, limit) ==
    /\ now + d <= limit
    /\ \A t \in timers : now + d <= t.due
    /\ \A t \in toastTimers : now + d <= t
    /\ \A t \in exportTimers : now + d <= t.due
    /\ now' = now + d
    /\ lastEvent' = [op |-> "tick"]
    /\ NoEffect
    /\ UNCHANGED <<heap, config, records, currentDate, isLoading, toast, storage,
                   toastTimers, prevRecord, lastWrite, edits>>
    /\ UNCHANGED dataVars

TickShort == Tick(TickMs, MaxNow)

-----------------------------------------------------------------------------
(* Record keeping and persistence *)

Next ==
    \/ Load
    \/ SetCurrentDate
    \/ SaveCheck
    \/ HandleChange
    \/ FireSave
    \/ TickShort

Spec == Init /\ [][Next]_vars

-----------------------------------------------------------------------------
(* Backup export (App.tsx 451-453, 763-771) *)

\* '復元しました'
MSG_RESTORED == "restored"
\* '無効なバックアップファイルです'
MSG_INVALID == "invalid backup file"
\* '読み込みに失敗しました'
MSG_READ_FAILED == "reading failed"
\* 'Excelを作成中...'
MSG_EXCEL_CREATING == "creating Excel"
\* 'ダウンロードを開始しました'
MSG_DOWNLOAD == "download started"
\* 'Excel出力に失敗しました'
MSG_EXCEL_FAILED == "Excel export failed"

\* exportBackupJSON(data): the text of the downloaded file
exportBackupJSON(items, recs) == Stringify(items, recs)

HandleBackup ==
    /\ ~isLoading
    /\ dataOps < MaxDataOps
    /\ edits + dataOps < MaxOps
    /\ backupFile' = exportBackupJSON(Deref(heap, config), records)
    /\ exportedState' = [config |-> Deref(heap, config), records |-> records]
    /\ dataOps' = dataOps + 1
    /\ lastEvent' = [op |-> "backup"]
    /\ NoEffect
    /\ UNCHANGED <<heap, config, records, currentDate, isLoading, toast, storage,
                   toastTimers, now, prevRecord, lastWrite, edits, restores,
                   exportTimers, sheet>>

-----------------------------------------------------------------------------
(* Backup import (App.tsx 455-473, 773-786) *)

\* A file the FileReader cannot read (its error event fires).
Unreadable == [kind |-> "unreadable"]

\* { "config": [...] } and { "records": {...} }
NoRecordsFile ==
    [kind |-> "json", type |-> "object", hasConfig |-> TRUE,
     config |-> JsonConfig(SeedItems), hasRecords |-> FALSE, records |-> <<>>]

NoConfigFile ==
    [kind |-> "json", type |-> "object", hasConfig |-> FALSE, config |-> <<>>,
     hasRecords |-> TRUE, records |-> JsonRecords(SavedRecords)]

\* A backup file written or edited outside the application: it has both
\* fields; its record of today holds two entries for c1, the first with a value;
\* its record of the other day holds c1 (YES), c2 (YES, with a comment) and
\* c3 (NO, value "8").
ForeignCheck(id, result, value, comment) ==
    [itemId |-> id, result |-> result, value |-> value, comment |-> comment,
     photo |-> ABSENT]

ForeignRecords ==
    [d \in Dates |->
        [date |-> d,
         checks |-> IF d = Today
                    THEN << ForeignCheck("c1", YES, "8", ABSENT),
                            ForeignCheck("c1", NO, ABSENT, ABSENT) >>
                    ELSE << ForeignCheck("c1", YES, ABSENT, ABSENT),
                            ForeignCheck("c2", YES, ABSENT, "memo"),
                            ForeignCheck("c3", NO, "8", ABSENT) >>,
         health |-> DefaultHealth,
         lastUpdated |-> 0]]

ForeignBackup == Stringify(SeedItems, ForeignRecords)

\* The files the user may pick in the file dialog.
ForeignFiles ==
    {NotJson, Unreadable, JsonNonObject("null"), JsonNonObject("number"),
     JsonNonObject("string"), JsonNonObject("array"), NoRecordsFile, NoConfigFile,
     ForeignBackup}

RestoreFiles == ForeignFiles \cup (IF backupFile = NoText THEN {} ELSE {backupFile})

\* importBackupJSON(file) once the FileReader is done: onload parses and
\* settles the promise; no other event of the reader has a handler.
importBackupJSON(file) ==
    IF file.kind = "unreadable"
    THEN [settled |-> FALSE]
    ELSE LET p == JsonParse(file)
         IN IF p.threw
            THEN [settled |-> TRUE, rejected |-> TRUE]
            ELSE [settled |-> TRUE, rejected |-> FALSE, value |-> p.value]

restoreOutcome_IgnoresAnswer(p, answer) ==
    IF p.rejected
    THEN [adopt |-> FALSE, asked |-> FALSE, msg |-> MSG_READ_FAILED, type |-> "error"]
    ELSE IF p.value.type = "null"
    THEN [adopt |-> FALSE, asked |-> FALSE, msg |-> MSG_READ_FAILED, type |-> "error"]
    ELSE IF p.value.hasConfig /\ p.value.hasRecords
    THEN [adopt |-> TRUE, asked |-> TRUE, msg |-> MSG_RESTORED, type |-> "success"]
    ELSE [adopt |-> FALSE, asked |-> FALSE, msg |-> MSG_INVALID, type |-> "error"]

\* handleRestore after the await, for the promise's outcome and the user's
\* answer to window.confirm: whether the dialog is shown, what is adopted and
\* which toast is shown.
restoreOutcome(p, answer) ==
    IF p.rejected
    THEN [adopt |-> FALSE, asked |-> FALSE, msg |-> MSG_READ_FAILED, type |-> "error"]
    ELSE IF p.value.type = "null"
    THEN \* data.config on null: TypeError, caught
         [adopt |-> FALSE, asked |-> FALSE, msg |-> MSG_READ_FAILED, type |-> "error"]
    ELSE IF p.value.hasConfig /\ p.value.hasRecords
    THEN IF answer
         THEN [adopt |-> TRUE, asked |-> TRUE, msg |-> MSG_RESTORED, type |-> "success"]
         ELSE [adopt |-> FALSE, asked |-> TRUE, msg |-> NULL, type |-> NULL]
    ELSE [adopt |-> FALSE, asked |-> FALSE, msg |-> MSG_INVALID, type |-> "error"]

\* The user picks a file: handleRestore runs up to the await.
RestoreStart ==
    /\ ~isLoading
    /\ dataOps < MaxDataOps
    /\ edits + dataOps < MaxOps
    /\ \E f \in RestoreFiles :
          /\ restores' = restores \cup {[file |-> f, reader |-> "reading"]}
          /\ lastEvent' = [op |-> "restoreStart", file |-> f]
    /\ dataOps' = dataOps + 1
    /\ NoEffect
    /\ UNCHANGED <<heap, config, records, currentDate, isLoading, toast, storage,
                   toastTimers, now, prevRecord, lastWrite, edits, backupFile,
                   exportedState, exportTimers, sheet>>

\* The FileReader is done with a file; if the promise settles, handleRestore
\* runs to its end. setConfig and setRecords are called one after the other
\* in the same continuation, and the next state any other handler or timer
\* sees has both.
ReaderDone ==
    \E r \in restores, answer \in BOOLEAN :
        /\ r.reader = "reading"
        /\ LET p == importBackupJSON(r.file)
           IN IF ~p.settled
              THEN /\ restores' = (restores \ {r}) \cup {[r EXCEPT !.reader = "error"]}
                   /\ lastEvent' = [op |-> "readerDone", file |-> r.file, settled |-> FALSE]
                   /\ NoEffect
                   /\ UNCHANGED <<heap, config, records, toast, toastTimers>>
              ELSE LET out == restoreOutcome(p, answer)
                   IN /\ restores' = restores \ {r}
                      /\ lastEvent' = [op |-> "readerDone", file |-> r.file, settled |-> TRUE,
                                       adopted |-> out.adopt,
                                       answer |-> out.asked /\ answer]
                      /\ IF out.adopt
                         THEN /\ heap' = AllocParsed(Collect(heap, <<>>, TimerRefs(exportTimers)),
                                                     p.value.config, TimerRefs(exportTimers))
                              /\ config' = FreshRefs(p.value.config, TimerRefs(exportTimers))
                              /\ records' = p.value.records
                              /\ EffectRuns(isLoading, config', records')
                         ELSE /\ UNCHANGED <<heap, config, records>>
                              /\ NoEffect
                      /\ IF out.msg = NULL
                         THEN UNCHANGED <<toast, toastTimers>>
                         ELSE showToast(out.msg, out.type)
        /\ UNCHANGED <<currentDate, isLoading, storage, now, prevRecord, lastWrite, edits,
                       backupFile, exportedState, exportTimers, sheet, dataOps>>

-----------------------------------------------------------------------------
(* Tabular export (App.tsx 438-449, 717-756) *)

\* await new Promise(r => setTimeout(r, 100))
EXCEL_WAIT_MS == 100

\* '良' / '否' / ' [メモ: '
RYO == "ryo"
HI == "hi"
MEMO_OPEN == " [memo: "

\* What `check?.x` reads when find() found nothing.
NoCheck ==
    [itemId |-> UNDEFINED, result |-> UNDEFINED, value |-> UNDEFINED,
     comment |-> UNDEFINED, photo |-> UNDEFINED]

\* checks.find(c => c.itemId === id)
find(checks, id) ==
    LET idx == {i \in 1..Len(checks) : checks[i].itemId = id}
    IN IF idx = {} THEN NoCheck
       ELSE checks[CHOOSE i \in idx : \A j \in idx : i <= j]

\* The cell text of one item for one record (App.tsx 733-741)
valueStr(item, record) ==
    LET check == find(record.checks, item.id)
        s0 == IF check.result = YES THEN RYO
              ELSE IF check.result = NO THEN HI ELSE ""
        s1 == IF Truthy(check.value)
              THEN s0 \o " (" \o check.value
                      \o (IF Truthy(item.unit) THEN item.unit ELSE "") \o ")"
              ELSE s0
    IN IF Truthy(check.comment)
       THEN s1 \o MEMO_OPEN \o check.comment \o "]"
       ELSE s1

\* `[${item.category}] ${item.text}`
resultKey(item) == "[" \o item.category \o "] " \o item.text

\* The check columns of a row: forEach assigns row[resultKey] item by item, a
\* later item with the same key overwriting an earlier one.
rowCells(record, items) ==
    [k \in {resultKey(items[i]) : i \in 1..Len(items)} |->
        LET last == CHOOSE i \in 1..Len(items) :
                       /\ resultKey(items[i]) = k
                       /\ \A j \in 1..Len(items) : resultKey(items[j]) = k => j <= i
        IN valueStr(items[last], record)]

\* new Date(lastUpdated).toLocaleString('ja-JP'): to the second
toLocaleString(t) == t \div 1000

\* One row of the sheet (App.tsx 723-746)
row(record, items) ==
    [date |-> record.date,
     temp |-> IF Truthy(record.health.temp) THEN record.health.temp ELSE "",
     symptom |-> record.health.symptom,
     wound |-> record.health.wound,
     details |-> IF Truthy(record.health.details) THEN record.health.details ELSE "",
     lastUpdated |-> toLocaleString(record.lastUpdated),
     cells |-> rowCells(record, items)]

\* a.localeCompare(b) on YYYY-MM-DD dates, by their place in the calendar
DateSeq == <<"2024-01-01", "2024-01-02">>

DateIndex(d) == CHOOSE i \in 1..Len(DateSeq) : DateSeq[i] = d

localeCompare(a, b) == DateIndex(a) - DateIndex(b)

RECURSIVE sortDesc_Asc(_, _)
sortDesc_Asc(recs, keys) ==
    IF keys = {} THEN <<>>
    ELSE LET m == CHOOSE x \in keys :
                     \A y \in keys : localeCompare(recs[x].date, recs[y].date) <= 0
         IN <<recs[m]>> \o sortDesc_Asc(recs, keys \ {m})

\* Object.values(records).sort((a, b) => b.date.localeCompare(a.date))
RECURSIVE sortDesc(_, _)
sortDesc(recs, keys) ==
    IF keys = {} THEN <<>>
    ELSE LET m == CHOOSE x \in keys :
                     \A y \in keys : localeCompare(recs[y].date, recs[x].date) <= 0
         IN <<recs[m]>> \o sortDesc(recs, keys \ {m})

\* exportDataToExcel(records, checklistConfig): the rows handed to json_to_sheet
exportDataToExcel(recs, items) ==
    LET sorted == sortDesc(recs, DOMAIN recs)
    IN [i \in 1..Len(sorted) |-> row(sorted[i], items)]

\* The click: toast, then the 100 ms wait.
ExcelExportStart ==
    /\ ~isLoading
    /\ dataOps < MaxDataOps
    /\ edits + dataOps < MaxOps
    /\ showToast(MSG_EXCEL_CREATING, "success")
    /\ exportTimers' = exportTimers \cup
           {[due |-> now + EXCEL_WAIT_MS, config |-> config, records |-> records,
             call |-> dataOps + 1]}
    /\ dataOps' = dataOps + 1
    /\ lastEvent' = [op |-> "excelStart"]
    /\ NoEffect
    /\ UNCHANGED <<heap, config, records, currentDate, isLoading, storage, now,
                   prevRecord, lastWrite, edits, backupFile, exportedState, restores, sheet>>

\* After the wait: exportDataToExcel on the records and config of the click's
\* render; it throws when window.XLSX is not loaded.
ExcelExportRun ==
    \E t \in exportTimers, loaded \in BOOLEAN :
        /\ now >= t.due
        /\ exportTimers' = exportTimers \ {t}
        /\ IF loaded
           THEN /\ sheet' = exportDataToExcel(t.records, Deref(heap, t.config))
                /\ showToast(MSG_DOWNLOAD, "success")
           ELSE /\ sheet' = sheet
                /\ showToast(MSG_EXCEL_FAILED, "error")
        /\ lastEvent' = [op |-> "excelRun", ok |-> loaded, records |-> t.records,
                         items |-> Deref(heap, t.config)]
        /\ NoEffect
        /\ UNCHANGED <<heap, config, records, currentDate, isLoading, storage, now,
                       prevRecord, lastWrite, edits, backupFile, exportedState, restores,
                       dataOps>>

-----------------------------------------------------------------------------
(* The clock, event by event *)

Dues == {t.due : t \in timers} \cup toastTimers \cup {t.due : t \in exportTimers}

\* Time passes until the next pending timer is due.
TickToDue ==
    /\ Dues # {}
    /\ LET next == CHOOSE d \in Dues : \A e \in Dues : d <= e
       IN /\ next > now
          /\ now' = next
    /\ lastEvent' = [op |-> "tick"]
    /\ NoEffect
    /\ UNCHANGED <<heap, config, records, currentDate, isLoading, toast, storage,
                   toastTimers, prevRecord, lastWrite, edits>>
    /\ UNCHANGED dataVars

-----------------------------------------------------------------------------
(* Data management: backup, restore and tabular export *)

NextData ==
    \/ Load
    \/ SaveCheck
    \/ HandleBackup
    \/ RestoreStart
    \/ ReaderDone

SpecData == Init /\ [][NextData]_vars

-----------------------------------------------------------------------------
(* Tabular export of kept and restored records, with the clock *)

NextExport ==
    \/ Load
    \/ RestoreStart
    \/ ReaderDone
    \/ ExcelExportStart
    \/ ExcelExportRun
    \/ FireSave
    \/ ClearToast
    \/ TickToDue

SpecExport == Init /\ [][NextExport]_vars

-----------------------------------------------------------------------------
(* Settings: add, delete and rename items (App.tsx 420-436, 491-495) *)

\* 'その他'
CAT_OTHER == "other"
\* '新しいチェック項目'
NEW_ITEM_TEXT == "new check item"
\* '項目を追加しました'
MSG_ADDED == "item added"

\* The text the user types into an item's input
EditedTexts == {"edited"}

\* The newItem literal of handleAddItem, at clock value t
handleAddItem(items, t) ==
    [id |-> "custom_" \o ToString(t), category |-> CAT_OTHER, text |-> NEW_ITEM_TEXT,
     type |-> "boolean", unit |-> ABSENT, displayOrder |-> Len(items) + 1]

\* config.filter(c => c.id !== id), on the array of references
handleDeleteItem(h, refs, id) == SelectSeq(refs, LAMBDA r : h[r].id # id)

\* The rows the user acts on in the settings list: the first and the last.
SettingsRows(refs) == {i \in 1..Len(refs) : i = 1 \/ i = Len(refs)}

AddItem ==
    /\ ~isLoading
    /\ edits < MaxEdits
    /\ edits + dataOps < MaxOps
    /\ LET ref == MaxRef(DOMAIN heap) + 1
       IN /\ heap' = [r \in DOMAIN heap \cup {ref} |->
                         IF r = ref THEN handleAddItem(Deref(heap, config), now) ELSE heap[r]]
          /\ config' = Append(config, ref)
    /\ showToast(MSG_ADDED, "success")
    /\ edits' = edits + 1
    /\ lastEvent' = [op |-> "addItem", at |-> now]
    /\ EffectRuns(isLoading, config', records)
    /\ UNCHANGED <<records, currentDate, isLoading, storage, now, prevRecord, lastWrite>>
    /\ UNCHANGED dataVars

\* The delete button of a row, the confirm dialog answered with OK.
DeleteItem ==
    /\ ~isLoading
    /\ \E i \in SettingsRows(config) :
          /\ config' = handleDeleteItem(heap, config, heap[config[i]].id)
          /\ lastEvent' = [op |-> "deleteItem", id |-> heap[config[i]].id]
    /\ heap' = Collect(heap, config', TimerRefs(exportTimers))
    /\ EffectRuns(isLoading, config', records)
    /\ UNCHANGED <<records, currentDate, isLoading, toast, storage, toastTimers, now,
                   prevRecord, lastWrite, edits>>
    /\ UNCHANGED dataVars

\* onChange of a row's text input: the array is copied, the item object is
\* not; its text is assigned in place.
EditText ==
    /\ ~isLoading
    /\ edits < MaxEdits
    /\ edits + dataOps < MaxOps
    /\ \E i \in SettingsRows(config), text \in EditedTexts :
          /\ heap' = [heap EXCEPT ![config[i]].text = text]
          /\ lastEvent' = [op |-> "editText", row |-> i]
    /\ edits' = edits + 1
    /\ EffectRuns(isLoading, config, records)
    /\ UNCHANGED <<config, records, currentDate, isLoading, toast, storage, toastTimers,
                   now, prevRecord, lastWrite>>
    /\ UNCHANGED dataVars

-----------------------------------------------------------------------------
(* Progress of the checklist view (App.tsx 199-204) *)

\* What 0 / 0 * 100 rounds to: NaN, kept apart from every percentage.
NaN == -1

\* Math.round(x / y) for x >= 0, y > 0
Round(x, y) == (2 * x + y) \div (2 * y)

\* res && res.result
completedCount(items, record) ==
    Cardinality({i \in 1..Len(items) : Truthy(find(record.checks, items[i].id).result)})

progress(items, record) ==
    IF Len(items) = 0
    THEN NaN
    ELSE Round(completedCount(items, record) * 100, Len(items))

NextSettings ==
    \/ Load
    \/ SaveCheck
    \/ AddItem
    \/ DeleteItem
    \/ EditText

SpecSettings == Init /\ [][NextSettings]_vars

-----------------------------------------------------------------------------
(* Tabular export of an item list with added and renamed items, with the    *)
(* clock                                                                   *)

NextColumns ==
    \/ Load
    \/ AddItem
    \/ EditText
    \/ ExcelExportStart
    \/ ExcelExportRun
    \/ FireSave
    \/ ClearToast
    \/ TickToDue

SpecColumns == Init /\ [][NextColumns]_vars

-----------------------------------------------------------------------------
(* Persistence of health edits, with rejected writes, timer by timer *)

NextPersist ==
    \/ Load
    \/ HandleChange
    \/ FireSave
    \/ ClearToast
    \/ TickToDue

SpecPersist == Init /\ [][NextPersist]_vars

-----------------------------------------------------------------------------
(* Claims *)

CheckIndices(r, id) == {i \in 1..Len(r.checks) : r.checks[i].itemId = id}

OtherChecks(r, id) == SelectSeq(r.checks, LAMBDA c : c.itemId # id)

\* C1: a check save of result c on the current day's record r leaves a record
\* with exactly one entry for c.itemId, which is c; the other entries of r are
\* all there, unchanged and in order; r.health is unchanged; and the object r
\* itself (with its checks array) is as it was before the call.
C1_SaveCheckReplacesOneEntry ==
    [][ (lastEvent'.op = "saveCheck" /\ edits' = edits + 1) =>
          LET r == getRecordForDate(records, currentDate, now)
              c == lastEvent'.result
              r2 == records'[currentDate]
          IN /\ Cardinality(CheckIndices(r2, c.itemId)) = 1
             /\ \A i \in CheckIndices(r2, c.itemId) : r2.checks[i] = c
             /\ OtherChecks(r2, c.itemId) = OtherChecks(r, c.itemId)
             /\ r2.health = r.health
             /\ prevRecord' = r ]_vars

\* C1 witness: a save that replaced an earlier, different entry of the same
\* item in a record that also holds another item's entry.
C1_Witness ==
    /\ lastEvent.op = "saveCheck"
    /\ \E i \in 1..Len(prevRecord.checks) :
          /\ prevRecord.checks[i].itemId = lastEvent.result.itemId
          /\ prevRecord.checks[i] # lastEvent.result
    /\ \E i \in 1..Len(prevRecord.checks) :
          prevRecord.checks[i].itemId # lastEvent.result.itemId
    /\ Len(records[currentDate].checks) = Len(prevRecord.checks)

\* C3: a health edit handleChange(field, value) on the current day's record
\* leaves health[field] = value, every other health field as it was, the
\* checks as they were, and lastUpdated equal to the time of the edit.
C3_HealthEditFrame ==
    [][ (lastEvent'.op = "handleChange" /\ edits' = edits + 1) =>
          LET r == getRecordForDate(records, currentDate, now)
              f == lastEvent'.field
              r2 == records'[currentDate]
          IN /\ r2.health[f] = lastEvent'.value
             /\ \A g \in (DOMAIN r.health) \ {f} : r2.health[g] = r.health[g]
             /\ r2.checks = r.checks
             /\ r2.lastUpdated = now ]_vars

\* C3 witness: an edit of a record that had a check, another health field
\* already set, and an older lastUpdated.
C3_Witness ==
    /\ lastEvent.op = "handleChange"
    /\ prevRecord.checks # <<>>
    /\ \E g \in (DOMAIN DefaultHealth) \ {lastEvent.field} :
          prevRecord.health[g] # DefaultHealth[g]
    /\ prevRecord.lastUpdated < lastEvent.at
    /\ records[currentDate].lastUpdated = lastEvent.at

\* C4: after the last change of config/records there is at most one setItem
\* call, it is made no earlier than the debounce window after that change and
\* has been made once the window is over, and it writes the state of that
\* moment (no superseded state is written); the only pending save is the one
\* the last change scheduled.
C4_DebouncedSingleWrite ==
    ~isLoading =>
        /\ writesSinceChange <= 1
        /\ writesSinceChange = 1 =>
              /\ lastWrite = Stringify(Deref(heap, config), records)
              /\ now >= lastChangeAt + DEBOUNCE_MS
        /\ now > lastChangeAt + DEBOUNCE_MS => writesSinceChange = 1
        /\ Cardinality(timers) <= 1
        /\ \A t \in timers :
              /\ writesSinceChange = 0
              /\ t = [due |-> lastChangeAt + DEBOUNCE_MS, config |-> config,
                      records |-> records]

\* C4 witness: two health edits on different fields less than a window apart,
\* then the write, holding both.
C4_Witness ==
    /\ changesInBurst >= 2
    /\ writesSinceChange = 1
    /\ lastWrite.kind = "json"
    /\ \E d \in DOMAIN lastWrite.records :
          /\ lastWrite.records[d].health.temp = "36.5"
          /\ lastWrite.records[d].health.symptom = ARI

\* C8: right after load() ran on a stored value that is not valid JSON, no
\* exception has left load, isLoading is false, config is the seed
\* configuration and records is empty.
C8_LoadCorruptFallsBack ==
    (lastEvent.op = "load" /\ storage = NotJson) =>
        /\ ~lastEvent.escaped
        /\ ~isLoading
        /\ config = DEFAULT_CHECKLIST
        /\ Deref(heap, config) = SeedItems
        /\ records = <<>>

\* C8 witness: load() has just run on such a value.
C8_Witness == lastEvent.op = "load" /\ storage = NotJson /\ ~isLoading

\* C2: in every reachable state each day record holds at most one check
\* result per itemId.
C2_AtMostOneCheckPerItem ==
    \A d \in DOMAIN records :
        \A i, j \in 1..Len(records[d].checks) :
            records[d].checks[i].itemId = records[d].checks[j].itemId => i = j

\* a and b have the same properties with the same values, except that a
\* property that is undefined in a may be missing from b.
C5_SameUpToUndefined(a, b) ==
    /\ DOMAIN a = DOMAIN b
    /\ \A f \in DOMAIN a : a[f] = b[f] \/ (a[f] = UNDEFINED /\ b[f] = ABSENT)

C5_SameRecord(a, b) ==
    /\ a.date = b.date
    /\ a.lastUpdated = b.lastUpdated
    /\ C5_SameUpToUndefined(a.health, b.health)
    /\ Len(a.checks) = Len(b.checks)
    /\ \A i \in 1..Len(a.checks) : C5_SameUpToUndefined(a.checks[i], b.checks[i])

\* The step that ends a confirmed restore of the file the last backup wrote.
C5_RoundTripStep ==
    /\ lastEvent'.op = "readerDone"
    /\ lastEvent'.settled
    /\ lastEvent'.adopted
    /\ backupFile # NoText
    /\ lastEvent'.file = backupFile

C6_Files ==
    {JsonNonObject("null"), JsonNonObject("number"), JsonNonObject("string"),
     JsonNonObject("array"), NoRecordsFile, NoConfigFile}

\* C6: an import of a file whose top-level JSON value lacks the records or the
\* config field ends with the "invalid backup file" error toast, and config
\* and records are as before.
C6_InvalidBackupRejected ==
    [][ (lastEvent'.op = "readerDone" /\ lastEvent'.file \in C6_Files) =>
          /\ toast' = [msg |-> MSG_INVALID, type |-> "error"]
          /\ config' = config
          /\ heap' = heap
          /\ records' = records ]_vars

\* C7: when the reader is done with a file that is unreadable or is not JSON,
\* the "reading failed" error toast is shown, config and records are as
\* before, and the attempt is over (it is not left waiting for a result).
C7_ReadFailureReported ==
    [][ (lastEvent'.op = "readerDone" /\ lastEvent'.file \in {NotJson, Unreadable}) =>
          /\ toast' = [msg |-> MSG_READ_FAILED, type |-> "error"]
          /\ config' = config
          /\ heap' = heap
          /\ records' = records
          /\ \A r \in restores' : r.file = lastEvent'.file => r.reader = "reading" ]_vars

\* The cell the encoding rule gives for an item and its check (NoCheck when
\* the record has none).
C10_Cell(item, check) ==
    (IF check.result = YES THEN RYO ELSE IF check.result = NO THEN HI ELSE "")
    \o (IF item.type = "record" /\ Truthy(check.value)
        THEN " (" \o check.value \o (IF Truthy(item.unit) THEN item.unit ELSE "") \o ")"
        ELSE "")
    \o (IF Truthy(check.comment) THEN MEMO_OPEN \o check.comment \o "]" ELSE "")

\* C10: in the sheet of a tabular export, the cell of each configured item in
\* the row of each day record is "ryo" for YES, "hi" for NO and empty without
\* a result, followed by " (value unit)" only when the item's type is record
\* and a value is present, followed by " [memo: comment]" when a comment is
\* present.
C10_CellEncoding ==
    (lastEvent.op = "excelRun" /\ lastEvent.ok) =>
        \A n \in 1..Len(sheet) :
            \A k \in 1..Len(lastEvent.items) :
                LET item == lastEvent.items[k]
                    record == lastEvent.records[sheet[n].date]
                IN sheet[n].cells[resultKey(item)] =
                       C10_Cell(item, find(record.checks, item.id))

\* The progress the checklist view shows in the current state.
C9_Shown == progress(Deref(heap, config), getRecordForDate(records, currentDate, now))

C9_Answered ==
    LET r == getRecordForDate(records, currentDate, now)
    IN {i \in 1..Len(config) :
           \E k \in 1..Len(r.checks) :
              /\ r.checks[k].itemId = heap[config[i]].id
              /\ r.checks[k].result \in {YES, NO}}

\* C9: the progress shown is 0 when the configuration is empty, 100 when
\* every configured item has a check with a result, and in general
\* 100 * answered / configured rounded to the nearest integer (half up).
C9_Progress ==
    ~isLoading =>
        /\ Len(config) = 0 => C9_Shown = 0
        /\ (Len(config) > 0 /\ Cardinality(C9_Answered) = Len(config)) => C9_Shown = 100
        /\ Len(config) > 0 =>
              \E q \in 0..100 :
                 /\ C9_Shown = q
                 /\ 2 * Len(config) * q <= 200 * Cardinality(C9_Answered) + Len(config)
                 /\ 200 * Cardinality(C9_Answered) + Len(config) < 2 * Len(config) * (q + 1)

C12_OneColumnPerItem ==
    (lastEvent.op = "excelRun" /\ lastEvent.ok) =>
        \A n \in 1..Len(sheet) :
            /\ Cardinality(DOMAIN sheet[n].cells) = Len(lastEvent.items)
            /\ \A k \in 1..Len(lastEvent.items) :
                  sheet[n].cells[resultKey(lastEvent.items[k])] =
                      valueStr(lastEvent.items[k], lastEvent.records[sheet[n].date])

\* C13: when setItem rejects a write, the "storage capacity exceeded" error
\* toast is shown, config, records and the stored text are as before and no
\* save is pending (no retry); every later change of config or records
\* schedules one save, due a debounce window later, of the state after the
\* change; and a write that is accepted stores the state of that moment.
C13_RejectedWriteSurfaced ==
    [][ /\ (lastEvent'.op = "save" /\ ~lastEvent'.ok) =>
              /\ toast' = [msg |-> MSG_QUOTA, type |-> "error"]
              /\ config' = config
              /\ heap' = heap
              /\ records' = records
              /\ storage' = storage
              /\ timers' = {}
        /\ (~isLoading /\ <<heap, config, records>>' # <<heap, config, records>>) =>
              timers' = {[due |-> now + DEBOUNCE_MS, config |-> config',
                          records |-> records']}
        /\ (lastEvent'.op = "save" /\ lastEvent'.ok) =>
              storage' = Stringify(Deref(heap, config), records) ]_vars

\* C13 witness: a write was rejected, a health edit followed, and the save it
\* scheduled has stored the edited state while the error toast is still shown.
C13_Witness ==
    /\ lastEvent.op = "save"
    /\ lastEvent.ok
    /\ toast = [msg |-> MSG_QUOTA, type |-> "error"]
    /\ storage = Stringify(Deref(heap, config), records)
    /\ \E d \in DOMAIN records : records[d].lastUpdated > 0

\* C14: getRecordForDate(d) is the stored record when records has an entry
\* for d, and otherwise a record of date d with no checks and health temp "",
\* symptom "nashi", wound "nashi"; selecting a date leaves records, the
\* pending save and the stored text as they were; and a date gets an entry in
\* records only by a check save or health edit made while it is the current
\* date (or by the initial load).
C14_DefaultRecordNotPersisted ==
    [][ /\ \A d \in Dates :
              LET r == getRecordForDate(records, d, now)
              IN IF d \in DOMAIN records
                 THEN r = records[d]
                 ELSE /\ r.date = d
                      /\ r.checks = <<>>
                      /\ r.health.temp = ""
                      /\ r.health.symptom = NASHI
                      /\ r.health.wound = NASHI
        /\ lastEvent'.op = "setCurrentDate" =>
              /\ records' = records
              /\ timers' = timers
              /\ storage' = storage
              /\ lastWrite' = lastWrite
        /\ \A d \in Dates :
              (d \notin DOMAIN records /\ d \in DOMAIN records') =>
                  \/ lastEvent'.op = "load"
                  \/ /\ lastEvent'.op \in {"saveCheck", "handleChange"}
                     /\ d = currentDate ]_vars

\* C14 witness: a date without a record was selected while another date has
\* one and no save is pending.
C14_Witness ==
    /\ lastEvent.op = "setCurrentDate"
    /\ currentDate \notin DOMAIN records
    /\ DOMAIN records # {}
    /\ timers = {}
    /\ storage = Stringify(Deref(heap, config), records)

\* C15: in every reachable state the ids of the configured items are
\* pairwise distinct.
C15_UniqueItemIds ==
    \A i, j \in 1..Len(config) :
        heap[config[i]].id = heap[config[j]].id => i = j

\* The file has both required fields.
C16_HasBothFields(f) ==
    f.kind = "json" /\ f.type = "object" /\ f.hasConfig /\ f.hasRecords

\* C16: a restore changes config or records only when the parsed file has
\* both fields and the user answered the confirm dialog with OK, and then
\* config and records are both the file's; otherwise (declined, or a field
\* missing, or no JSON) config and records are as before; and every write to
\* the store is the config and records of one state, never the file's config
\* with the earlier records or the reverse.
C16_RestoreAllOrNothing ==
    [][ /\ lastEvent'.op = "readerDone" =>
              IF lastEvent'.settled /\ lastEvent'.adopted
              THEN /\ C16_HasBothFields(lastEvent'.file)
                   /\ lastEvent'.answer
                   /\ Deref(heap', config') = lastEvent'.file.config
                   /\ records' = lastEvent'.file.records
              ELSE /\ config' = config
                   /\ heap' = heap
                   /\ records' = records
        /\ lastEvent'.op = "save" =>
              lastWrite' = Stringify(Deref(heap, config), records) ]_vars

\* C16 witness: a foreign backup was restored with the user's OK and the
\* save that followed stored the backup's config and records.
C16_Witness ==
    /\ lastEvent.op = "save"
    /\ lastEvent.ok
    /\ records = ForeignBackup.records
    /\ Deref(heap, config) = ForeignBackup.config
    /\ storage = ForeignBackup
    /\ backupFile = NoText

\* C17: no two exports are in flight (started and not yet finished) for the
\* same config and records.
C17_SingleExportInFlight ==
    \A a, b \in exportTimers :
        (a.config = b.config /\ a.records = b.records) => a = b

\* C18: while isLoading is true no save is pending, no setItem call has been
\* made and the slot holds what it held at the start; so the first write
\* comes after the load has read the slot.
C18_NoWriteBeforeLoad ==
    isLoading =>
        /\ timers = {}
        /\ lastWrite = NoText
        /\ writesSinceChange = 0
        /\ storage \in StoredValues

\* C18 witness: a debounce window has gone by with the load still to finish
\* and a saved state in the slot.
C18_Witness ==
    /\ isLoading
    /\ now >= DEBOUNCE_MS
    /\ storage = SavedState

C20_SeedUnchanged == Deref(heap, DEFAULT_CHECKLIST) = SeedItems

=============================================================================
